---- MODULE Spec2Model ----
(***************************************************************************)
(* Session store (zustand authStore) and page logic of the events / feed   *)
(* front end.  Strings that the code inspects character by character       *)
(* (JSON texts, form fields, tokens) are sequences of one-character        *)
(* strings; JavaScript values are records of one shape.                    *)
(***************************************************************************)
EXTENDS Integers, Sequences, FiniteSets, TLC

VARIABLES
    hasWindow,   \* typeof window !== "undefined" in this runtime
    token,       \* authStore state.token   (null or a string)
    user,        \* authStore state.user    (null or the stored value)
    storage,     \* localStorage: the keys "token" and "user"
    ops,         \* history: the last three store operations, with their arguments
    prev,        \* history: session and storage right before the last operation
    route,       \* the page component that is mounted ("none" before the first)
    pendingNav,  \* target of a router.replace / router.push not yet carried out
    page,        \* the mounted page's state: loading, error, its two data states,
                 \* and its loads in flight
    pageOp,      \* history: the page step that ran last
    prevPage,    \* history: the page's state right before that step
    form,        \* the mounted form or button: its fields, loading, error
    requests,    \* the mutating API calls awaited by a handler, oldest first
    formOp,      \* history: the form step that ran last
    http         \* the HTTP exchange of one apiFetch call: request, response, outcome

storeVars == <<hasWindow, token, user, storage>>
pageVars == <<route, pendingNav, page, pageOp, prevPage>>
formVars == <<form, requests, formOp>>
vars == <<hasWindow, token, user, storage, ops, prev, route, pendingNav, page,
          pageOp, prevPage, form, requests, formOp, http>>

-----------------------------------------------------------------------------
(* JavaScript values: null, strings, and flat objects with string members. *)

JSNull == [type |-> "null", str |-> <<>>, members |-> <<>>]
JSString(s) == [type |-> "string", str |-> s, members |-> <<>>]
JSObject(m) == [type |-> "object", str |-> <<>>, members |-> m]

\* JavaScript truthiness of a value: null and "" are falsy.
Truthy(v) == v.type # "null" /\ ~(v.type = "string" /\ v.str = <<>>)

DQ == "\""
BS == "\\"

\* The keys of a User (src/lib/types.ts).
KeyUserId == <<"u", "s", "e", "r", "I", "d">>
KeyName == <<"n", "a", "m", "e">>
KeyEmail == <<"e", "m", "a", "i", "l">>
KeyCity == <<"c", "i", "t", "y">>

UserRecord(id, name, email, city) ==
    JSObject(<< <<KeyUserId, id>>, <<KeyName, name>>,
                <<KeyEmail, email>>, <<KeyCity, city>> >>)

-----------------------------------------------------------------------------
(* JSON.stringify on the values above.                                     *)

RECURSIVE EscapeChars(_)
EscapeChars(s) ==
    IF s = <<>> THEN <<>>
    ELSE (IF Head(s) = DQ \/ Head(s) = BS THEN <<BS, Head(s)>> ELSE <<Head(s)>>)
         \o EscapeChars(Tail(s))

QuoteString(s) == <<DQ>> \o EscapeChars(s) \o <<DQ>>

RECURSIVE StringifyMembers(_)
StringifyMembers(m) ==
    IF m = <<>> THEN <<>>
    ELSE QuoteString(Head(m)[1]) \o <<":">> \o QuoteString(Head(m)[2])
         \o (IF Tail(m) = <<>> THEN <<>> ELSE <<",">> \o StringifyMembers(Tail(m)))

JSONStringify(v) ==
    CASE v.type = "null" -> <<"n", "u", "l", "l">>
      [] v.type = "string" -> QuoteString(v.str)
      [] OTHER -> <<"{">> \o StringifyMembers(v.members) \o <<"}">>

-----------------------------------------------------------------------------
(* JSON.parse on texts of that grammar: a result with ok = FALSE is the    *)
(* SyntaxError the call throws.                                            *)

ParseFail == [ok |-> FALSE, value |-> JSNull, next |-> 0]

\* Reads the characters of a string literal from position i (after the
\* opening quote) up to the closing quote.
RECURSIVE ReadChars(_, _, _)
ReadChars(text, i, acc) ==
    IF i > Len(text) THEN ParseFail
    ELSE IF text[i] = DQ THEN [ok |-> TRUE, value |-> JSString(acc), next |-> i + 1]
    ELSE IF text[i] = BS THEN
        IF i + 1 <= Len(text) /\ (text[i + 1] = DQ \/ text[i + 1] = BS)
        THEN ReadChars(text, i + 2, Append(acc, text[i + 1]))
        ELSE ParseFail
    ELSE ReadChars(text, i + 1, Append(acc, text[i]))

ParseStringAt(text, i) ==
    IF i <= Len(text) /\ text[i] = DQ THEN ReadChars(text, i + 1, <<>>) ELSE ParseFail

\* Members of an object from position i: key ":" string, separated by ",".
RECURSIVE ParseMembers(_, _, _)
ParseMembers(text, i, acc) ==
    LET k == ParseStringAt(text, i) IN
    IF ~k.ok \/ k.next > Len(text) \/ text[k.next] # ":" THEN ParseFail
    ELSE LET v == ParseStringAt(text, k.next + 1) IN
         IF ~v.ok \/ v.next > Len(text) THEN ParseFail
         ELSE LET got == Append(acc, <<k.value.str, v.value.str>>) IN
              IF text[v.next] = "}"
              THEN [ok |-> TRUE, value |-> JSObject(got), next |-> v.next + 1]
              ELSE IF text[v.next] = ","
              THEN ParseMembers(text, v.next + 1, got)
              ELSE ParseFail

ParseValueAt(text, i) ==
    IF i > Len(text) THEN ParseFail
    ELSE IF text[i] = DQ THEN ParseStringAt(text, i)
    ELSE IF text[i] = "{" THEN
        IF i + 1 <= Len(text) /\ text[i + 1] = "}"
        THEN [ok |-> TRUE, value |-> JSObject(<<>>), next |-> i + 2]
        ELSE ParseMembers(text, i + 1, <<>>)
    ELSE IF i + 3 <= Len(text) /\ SubSeq(text, i, i + 3) = <<"n", "u", "l", "l">>
    THEN [ok |-> TRUE, value |-> JSNull, next |-> i + 4]
    ELSE ParseFail

JSONParse(text) ==
    LET r == ParseValueAt(text, 1) IN
    IF r.ok /\ r.next = Len(text) + 1
    THEN [ok |-> TRUE, value |-> r.value]
    ELSE [ok |-> FALSE, value |-> JSNull]

-----------------------------------------------------------------------------
(* The values the model draws from.                                        *)

Tokens == {<<"t", "1">>, <<"t", "2">>}

User1 == UserRecord(<<"U", "1">>, <<"A", "n", "a">>, <<"a", "@", "x">>, <<"C">>)
User2 == UserRecord(<<"U", "2">>, <<"B", DQ, BS>>, <<"b", "@", "x">>, <<>>)
Users == {User1, User2}

\* What localStorage may hold under "token" and "user" when the tab opens:
\* nothing, the empty string, what setAuth wrote, or anything else.
StoredTokens == {JSNull, JSString(<<>>)} \cup {JSString(t) : t \in Tokens}
TruncatedPayload == SubSeq(JSONStringify(User1), 1, Len(JSONStringify(User1)) - 1)
StoredUsers ==
    {JSNull, JSString(<<>>), JSString(TruncatedPayload),
     JSString(<<"n", "u", "l", "l">>), JSString(<<DQ, "x", DQ>>)}
    \cup {JSString(JSONStringify(u)) : u \in Users}

EmptyStorage == [token |-> JSNull, user |-> JSNull]

-----------------------------------------------------------------------------
(* The store's operations as functions of the store state                  *)
(* st = [token, user, storage, threw] in a runtime with (w) or without     *)
(* window; threw tells whether the call raised to its caller.              *)

StoreState == [token |-> token, user |-> user, storage |-> storage, threw |-> FALSE]

InitialStoreState(stg) ==
    [token |-> JSNull, user |-> JSNull, storage |-> stg, threw |-> FALSE]

\* setAuth that forgets to write the "user" key.
setAuthTokenKeyOnly(st, w, t, u) ==
    [token |-> t, user |-> u,
     storage |-> IF w THEN [st.storage EXCEPT !.token = t] ELSE st.storage,
     threw |-> FALSE]

setAuth(st, w, t, u) ==
    [token |-> t, user |-> u,
     storage |-> IF w
                 THEN [token |-> t, user |-> JSString(JSONStringify(u))]
                 ELSE st.storage,
     threw |-> FALSE]

\* logout that leaves the "user" key in localStorage.
logoutKeepsUserKey(st, w) ==
    [token |-> JSNull, user |-> JSNull,
     storage |-> IF w THEN [st.storage EXCEPT !.token = JSNull] ELSE st.storage,
     threw |-> FALSE]

\* logout that clears the session in memory only.
logoutMemoryOnly(st, w) ==
    [token |-> JSNull, user |-> JSNull, storage |-> st.storage, threw |-> FALSE]

logout(st, w) ==
    [token |-> JSNull, user |-> JSNull,
     storage |-> IF w THEN EmptyStorage ELSE st.storage,
     threw |-> FALSE]

\* hydrateFromStorage testing (token || userStr).
hydrateEitherKey(st, w) ==
    IF ~w THEN st
    ELSE LET tok == st.storage.token
             userStr == st.storage.user
         IN IF Truthy(tok) \/ Truthy(userStr)
            THEN LET parsed == JSONParse(userStr.str) IN
                 IF parsed.ok
                 THEN [st EXCEPT !.token = tok, !.user = parsed.value]
                 ELSE [st EXCEPT !.storage = EmptyStorage]
            ELSE st

\* hydrateFromStorage whose catch removes the "token" key only.
hydrateCatchKeepsUserKey(st, w) ==
    IF ~w THEN st
    ELSE LET tok == st.storage.token
             userStr == st.storage.user
         IN IF Truthy(tok) /\ Truthy(userStr)
            THEN LET parsed == JSONParse(userStr.str) IN
                 IF parsed.ok
                 THEN [st EXCEPT !.token = tok, !.user = parsed.value]
                 ELSE [st EXCEPT !.storage.token = JSNull]
            ELSE st

\* hydrateFromStorage that puts the unparsed text into the session.
hydrateWithoutParse(st, w) ==
    IF ~w THEN st
    ELSE LET tok == st.storage.token
             userStr == st.storage.user
         IN IF Truthy(tok) /\ Truthy(userStr)
            THEN LET parsed == JSONParse(userStr.str) IN
                 IF parsed.ok
                 THEN [st EXCEPT !.token = tok, !.user = userStr]
                 ELSE [st EXCEPT !.storage = EmptyStorage]
            ELSE st

\* hydrateFromStorage without the window test: where there is no window the
\* name localStorage is not defined and reading it raises a ReferenceError.
hydrateWithoutWindowTest(st, w) ==
    IF ~w THEN [st EXCEPT !.threw = TRUE]
    ELSE LET tok == st.storage.token
             userStr == st.storage.user
         IN IF Truthy(tok) /\ Truthy(userStr)
            THEN LET parsed == JSONParse(userStr.str) IN
                 IF parsed.ok
                 THEN [st EXCEPT !.token = tok, !.user = parsed.value]
                 ELSE [st EXCEPT !.storage = EmptyStorage]
            ELSE st

hydrateFromStorage(st, w) ==
    IF ~w THEN st
    ELSE LET tok == st.storage.token
             userStr == st.storage.user
         IN IF Truthy(tok) /\ Truthy(userStr)
            THEN LET parsed == JSONParse(userStr.str) IN
                 IF parsed.ok
                 THEN [st EXCEPT !.token = tok, !.user = parsed.value]
                 ELSE [st EXCEPT !.storage = EmptyStorage]
            ELSE st

-----------------------------------------------------------------------------
(* Pages: what a mount does (first render, its effects in source order,    *)
(* and the render and effects that a store update during them causes),     *)
(* and the loads of the pages that fetch.                                  *)

Pages == {"login", "events", "eventDetail", "profile", "usersNew", "feed", "postDetail"}

\* Number of resources the page's load effect fetches.
Fetches(p) ==
    CASE p \in {"eventDetail", "profile", "postDetail"} -> 2
      [] p \in {"events", "feed"} -> 1
      [] OTHER -> 0

NoError == "null"
LoadError(p) ==
    CASE p = "events" -> "No se pudieron cargar los eventos."
      [] p = "eventDetail" -> "No se pudo cargar el evento o sus inscripciones."
      [] p = "profile" -> "No se pudo cargar la informacion del perfil."
      [] p = "feed" -> "No se pudieron cargar los posts."
      [] OTHER -> "No se pudo cargar el post o sus comentarios."

\* What the server may answer to the first and to the second fetch of a load.
FirstData == {<<"a1">>, <<"a2">>}
SecondData == {<<>>, <<"b1">>, <<"b1", "b2">>}

\* useState initial values of a page (forms' own loading flags start false).
\* A state that holds one entity or null (event, post) is a sequence of at
\* most one element.  The two filters are those of the events page.
\* unhandled: a rejection has left one of the page's async functions.
InitialPage(p) ==
    [loading |-> Fetches(p) > 0, error |-> NoError,
     dataA |-> <<>>, dataB |-> <<>>, loads |-> <<>>,
     cityFilter |-> <<>>, dateFilter |-> <<>>, unhandled |-> FALSE]

NoPage == [loading |-> FALSE, error |-> NoError,
           dataA |-> <<>>, dataB |-> <<>>, loads |-> <<>>,
           cityFilter |-> <<>>, dateFilter |-> <<>>, unhandled |-> FALSE]

\* latest: no load of the page has been started after this one.
NewLoad(p) ==
    [a |-> "pending", b |-> IF Fetches(p) = 2 THEN "pending" ELSE "none",
     dataA |-> <<>>, dataB |-> <<>>, latest |-> TRUE]

\* loadData / loadEvents / loadProfileData / loadPosts up to the await.
\* Nothing aborts or marks the loads already in flight: the effects return
\* no cleanup.
startLoad(pg, p) ==
    [pg EXCEPT !.loading = TRUE, !.error = NoError,
               !.loads = Append([i \in DOMAIN @ |-> [@[i] EXCEPT !.latest = FALSE]],
                                NewLoad(p))]

RemoveAt(seq, i) == SubSeq(seq, 1, i - 1) \o SubSeq(seq, i + 1, Len(seq))

\* A load that stores each answer as soon as it arrives.
settleCommitsEachAnswer(pg, i, slot, ok, data, errText) ==
    LET ld == pg.loads[i]
        other == IF slot = "a" THEN ld.b ELSE ld.a
    IN IF ~ok
       THEN [pg EXCEPT !.error = errText, !.loading = FALSE,
                       !.loads = RemoveAt(@, i)]
       ELSE IF other = "pending"
       THEN IF slot = "a"
            THEN [pg EXCEPT !.dataA = data, !.loads[i].a = "ok", !.loads[i].dataA = data]
            ELSE [pg EXCEPT !.dataB = data, !.loads[i].b = "ok", !.loads[i].dataB = data]
       ELSE [pg EXCEPT !.dataA = IF slot = "a" THEN data ELSE ld.dataA,
                       !.dataB = IF slot = "b" THEN data
                                 ELSE IF ld.b = "none" THEN @ ELSE ld.dataB,
                       !.loading = FALSE,
                       !.loads = RemoveAt(@, i)]

\* A load whose catch also empties the page's data.
settleFailureClearsData(pg, i, slot, ok, data, errText) ==
    LET ld == pg.loads[i]
        other == IF slot = "a" THEN ld.b ELSE ld.a
    IN IF ~ok
       THEN [pg EXCEPT !.error = errText, !.loading = FALSE,
                       !.dataA = <<>>, !.dataB = <<>>,
                       !.loads = RemoveAt(@, i)]
       ELSE IF other = "pending"
       THEN IF slot = "a"
            THEN [pg EXCEPT !.loads[i].a = "ok", !.loads[i].dataA = data]
            ELSE [pg EXCEPT !.loads[i].b = "ok", !.loads[i].dataB = data]
       ELSE [pg EXCEPT !.dataA = IF slot = "a" THEN data ELSE ld.dataA,
                       !.dataB = IF slot = "b" THEN data
                                 ELSE IF ld.b = "none" THEN @ ELSE ld.dataB,
                       !.loading = FALSE,
                       !.loads = RemoveAt(@, i)]

\* One fetch of load i answers: await Promise.all([...]) rejects with the
\* first failure (catch, finally) and resolves when every fetch has
\* succeeded (the two set calls, finally).  errText is the catch's message.
settle(pg, i, slot, ok, data, errText) ==
    LET ld == pg.loads[i]
        other == IF slot = "a" THEN ld.b ELSE ld.a
    IN IF ~ok
       THEN [pg EXCEPT !.error = errText, !.loading = FALSE,
                       !.loads = RemoveAt(@, i)]
       ELSE IF other = "pending"
       THEN IF slot = "a"
            THEN [pg EXCEPT !.loads[i].a = "ok", !.loads[i].dataA = data]
            ELSE [pg EXCEPT !.loads[i].b = "ok", !.loads[i].dataB = data]
       ELSE [pg EXCEPT !.dataA = IF slot = "a" THEN data ELSE ld.dataA,
                       !.dataB = IF slot = "b" THEN data
                                 ELSE IF ld.b = "none" THEN @ ELSE ld.dataB,
                       !.loading = FALSE,
                       !.loads = RemoveAt(@, i)]

\* Whether hydrateFromStorage reaches its set({ token, user }) call.
hydrateCallsSet(st, w) ==
    /\ w
    /\ Truthy(st.storage.token)
    /\ Truthy(st.storage.user)
    /\ JSONParse(st.storage.user.str).ok

\* A login page that would ask for /events whatever the token.
redirectEffectWithoutTest(p, tok) ==
    IF p = "login"
    THEN "events"
    ELSE IF tok = JSNull THEN "login" ELSE "none"

\* The redirect effect of a page, run with the token its render saw.
redirectEffect(p, tok) ==
    IF p = "login"
    THEN IF Truthy(tok) THEN "events" ELSE "none"
    ELSE IF tok = JSNull THEN "login" ELSE "none"

\* The guard of a page's load effect, with the token and user its render saw.
loadEffectRuns(p, tok, usr) ==
    /\ Fetches(p) > 0
    /\ Truthy(tok)
    /\ (p = "profile" => Truthy(usr))

\* Mounting page p on store state st.  The three effects of the first
\* render run in source order with the token and user of that render; when
\* hydrateFromStorage has called set, the component renders again and the
\* effects whose dependencies changed run again (a parsed object is a new
\* object, so [token, user] of the profile page changed; a parsed string or
\* null is compared by value).
mount(p, st, w) ==
    LET st1 == hydrateFromStorage(st, w)
        redirect1 == redirectEffect(p, st.token)
        pg0 == InitialPage(p)
        pg1 == IF loadEffectRuns(p, st.token, st.user) THEN startLoad(pg0, p) ELSE pg0
        again == hydrateCallsSet(st, w)
        tokenChanged == st1.token # st.token
        userChanged == st1.user.type = "object" \/ st1.user # st.user
        redirect2 == IF again /\ tokenChanged THEN redirectEffect(p, st1.token) ELSE "none"
        pg2 == IF /\ again
                  /\ tokenChanged \/ (p = "profile" /\ userChanged)
                  /\ loadEffectRuns(p, st1.token, st1.user)
               THEN startLoad(pg1, p) ELSE pg1
    IN [store |-> st1,
        page |-> pg2,
        nav |-> IF redirect2 # "none" THEN redirect2 ELSE redirect1,
        toLogin |-> redirect1 = "login" \/ redirect2 = "login",
        before |-> [token |-> st.token, user |-> st.user]]

-----------------------------------------------------------------------------
(* Forms and the register button: validation before the API call.          *)

FormKinds == {"login", "eventCreate", "eventEdit", "newUser", "newPost",
              "newComment", "register"}

\* Number of required text inputs of each form.
FieldCount(k) ==
    CASE k \in {"eventCreate", "eventEdit", "newUser"} -> 4
      [] k \in {"login", "newPost"} -> 2
      [] k = "newComment" -> 1
      [] OTHER -> 0

\* What the user may have typed into an input.
FieldValues == {<<>>, <<" ", " ">>, <<" ", "a">>}

IsSpace(c) == c = " "

\* String.prototype.trim, on the characters above.
RECURSIVE TrimStart(_)
TrimStart(s) ==
    IF s # <<>> /\ IsSpace(Head(s)) THEN TrimStart(Tail(s)) ELSE s

RECURSIVE TrimEnd(_)
TrimEnd(s) ==
    IF s # <<>> /\ IsSpace(s[Len(s)]) THEN TrimEnd(SubSeq(s, 1, Len(s) - 1)) ELSE s

Trim(s) == TrimEnd(TrimStart(s))

\* A required-field test without trim: !name.
fieldMissingWithoutTrim(s) == s = <<>>

\* The required-field test of the forms: !name.trim().
fieldMissing(s) == Trim(s) = <<>>

MissingTokenError == "No hay token de autenticacion."
FieldsError(k) ==
    CASE k = "login" -> "Correo y contrasena son obligatorios."
      [] k \in {"eventCreate", "eventEdit"} -> "Todos los campos del evento son obligatorios."
      [] k = "newUser" -> "Todos los campos son obligatorios."
      [] k = "newPost" -> "Titulo y contenido son obligatorios."
      [] OTHER -> "El comentario no puede estar vacio."
NotLoggedInError == "Debes iniciar sesion para inscribirte."
AlreadyRegisteredError == "Ya estas inscrito en este evento."

\* useState initial values of a form; the edit form starts from initialEvent.
InitialForm(k, registered) ==
    [kind |-> k,
     fields |-> [i \in 1..FieldCount(k) |->
                     IF k = "eventEdit" THEN <<" ", "a">> ELSE <<>>],
     loading |-> FALSE, error |-> NoError, success |-> FALSE,
     isRegistered |-> registered, unhandled |-> FALSE]

NoForm == [kind |-> "none", fields |-> <<>>, loading |-> FALSE, error |-> NoError,
           success |-> FALSE, isRegistered |-> FALSE, unhandled |-> FALSE]

\* Buttons whose disabled attribute ignores loading.
buttonDisabledWhenRegistered(fm) == fm.kind = "register" /\ fm.isRegistered

\* A register button with disabled={loading} like the submit buttons.
buttonDisabledWhileLoading(fm) == fm.loading

\* disabled={loading} of the submit buttons, disabled={loading || isRegistered}
\* of the register button.
buttonDisabled(fm) == fm.loading \/ (fm.kind = "register" /\ fm.isRegistered)

\* handleSubmit / handleClick up to the await: the form after it, and
\* whether the API call was issued.
handleSubmit(fm, tok, usr) ==
    LET k == fm.kind
        start == [fm EXCEPT !.error = NoError,
                            !.success = IF k = "newUser" THEN FALSE ELSE @]
        refuse(msg) == [form |-> [start EXCEPT !.error = msg], issued |-> FALSE]
    IN IF k = "register" /\ (~Truthy(tok) \/ ~Truthy(usr)) THEN refuse(NotLoggedInError)
       ELSE IF k = "register" /\ fm.isRegistered THEN refuse(AlreadyRegisteredError)
       ELSE IF k \notin {"login", "register"} /\ ~Truthy(tok) THEN refuse(MissingTokenError)
       ELSE IF \E i \in DOMAIN fm.fields : fieldMissing(fm.fields[i]) THEN refuse(FieldsError(k))
       ELSE [form |-> [start EXCEPT !.loading = TRUE], issued |-> TRUE]

SubmitError(k) ==
    CASE k = "login" -> "Credenciales invalidas o error en el servidor."
      [] k \in {"eventCreate", "eventEdit"} -> "No se pudo guardar el evento."
      [] k = "newUser" -> "No se pudo crear el usuario."
      [] k = "newPost" -> "No se pudo crear el post."
      [] k = "newComment" -> "No se pudo crear el comentario."
      [] OTHER -> "No se pudo registrar al evento."

\* The handler after a successful await, on the form's own state: the forms
\* that create clear their inputs, and finally sets loading to false.
afterSuccess(fm) ==
    [fm EXCEPT !.fields = IF fm.kind \in {"eventCreate", "newUser", "newPost", "newComment"}
                          THEN [i \in DOMAIN @ |-> <<>>] ELSE @,
               !.success = IF fm.kind = "newUser" THEN TRUE ELSE @,
               !.loading = FALSE]

\* A handler with try / finally and no catch.
afterFailureWithoutCatch(fm) == [fm EXCEPT !.unhandled = TRUE, !.loading = FALSE]

\* The handler's catch and finally.
afterFailure(fm) == [fm EXCEPT !.error = SubmitError(fm.kind), !.loading = FALSE]

MaxRequests == 2

\* A call that a handler has just issued and awaits.  live: the form that
\* issued it is still mounted; hosted: so is the page whose callback
\* (onEventSaved, onPostCreated, onCommentCreated, onRegistered) it holds.
NewRequest(k) == [kind |-> k, live |-> TRUE, hosted |-> TRUE]

-----------------------------------------------------------------------------
(* The pages' collections: entities, derived views, creation callbacks.    *)

\* The fields of Event, Registration, Post and Comment that the pages read.
EventRecord(id, city, date) == [eventId |-> id, city |-> city, date |-> date]
RegistrationRecord(id, eventId, userId) ==
    [regId |-> id, eventId |-> eventId, userId |-> userId]
PostRecord(id) == [id |-> id]
CommentRecord(id) == [id |-> id]

\* String.prototype.toLowerCase on the letters used here.
LowerChar(c) ==
    CASE c = "B" -> "b"
      [] c = "O" -> "o"
      [] OTHER -> c

ToLowerCase(s) == [i \in DOMAIN s |-> LowerChar(s[i])]

\* String.prototype.startsWith.
StartsWith(s, prefix) ==
    /\ Len(prefix) <= Len(s)
    /\ SubSeq(s, 1, Len(prefix)) = prefix

\* v?.key : the member's value, or undefined (here null) when v is null,
\* is not an object or has no such member; of a repeated key the last counts.
GetMember(v, key) ==
    LET hits == {i \in DOMAIN v.members : v.members[i][1] = key}
    IN IF v.type = "object" /\ hits # {}
       THEN JSString(v.members[CHOOSE i \in hits : \A j \in hits : j <= i][2])
       ELSE JSNull

\* An isRegistered that looks at the first registration only.
isRegisteredByFirst(registrations, usr) ==
    LET currentUserId == GetMember(usr, KeyUserId)
    IN /\ Truthy(currentUserId)
       /\ registrations # <<>>
       /\ registrations[1].userId = currentUserId.str

\* EventDetailPage: !!(currentUserId && registrations.some(...)).
isRegistered(registrations, usr) ==
    LET currentUserId == GetMember(usr, KeyUserId)
    IN /\ Truthy(currentUserId)
       /\ \E i \in DOMAIN registrations : registrations[i].userId = currentUserId.str

\* A count of the users registered, not of the registrations.
participantsCountOfUsers(registrations) ==
    Cardinality({registrations[i].userId : i \in DOMAIN registrations})

\* EventDetailPage: const participantsCount = registrations.length.
participantsCount(registrations) == Len(registrations)

\* A filter that compares the city as typed and looks for the date anywhere.
filteredEventsLoosely(events, cityFilter, dateFilter) ==
    LET matchesCity(e) == cityFilter = <<>> \/ e.city = cityFilter
        matchesDate(e) ==
            \/ dateFilter = <<>>
            \/ \E k \in 1..Len(e.date) :
                   StartsWith(SubSeq(e.date, k, Len(e.date)), dateFilter)
        Keep(e) == matchesCity(e) /\ matchesDate(e)
    IN SelectSeq(events, Keep)

\* EventsPage: events.filter(...).
filteredEvents(events, cityFilter, dateFilter) ==
    LET matchesCity(e) ==
            cityFilter = <<>> \/ ToLowerCase(e.city) = ToLowerCase(cityFilter)
        matchesDate(e) == dateFilter = <<>> \/ StartsWith(e.date, dateFilter)
        Keep(e) == matchesCity(e) /\ matchesDate(e)
    IN SelectSeq(events, Keep)

\* A joined list that holds every event as soon as there is a registration.
joinedEventsOfAny(events, registrations) ==
    IF registrations = <<>> THEN <<>> ELSE events

\* ProfilePage: events.filter((event) => registrations.some(...)).
joinedEvents(events, registrations) ==
    LET Joined(e) == \E i \in DOMAIN registrations : registrations[i].eventId = e.eventId
    IN SelectSeq(events, Joined)

\* A callback that would drop the former elements.
addOnlyCreated(k, prevItems, item) == [next |-> <<item>>, prev |-> prevItems]

\* A callback that would add the new entity at the other end.
addAtOtherEnd(k, prevItems, item) ==
    [next |-> IF k \in {"eventCreate", "newPost"}
              THEN Append(prevItems, item) ELSE <<item>> \o prevItems,
     prev |-> prevItems]

\* handleEventCreated, handlePostCreated: setX((prev) => [item, ...prev]);
\* handleCommentCreated, handleRegistered: setX((prev) => [...prev, item]).
\* next is the new state, prev the array that was the state, as the call
\* leaves it.
addCreated(k, prevItems, item) ==
    [next |-> IF k \in {"eventCreate", "newPost"}
              THEN <<item>> \o prevItems ELSE Append(prevItems, item),
     prev |-> prevItems]

\* The page and the state that a form's callback updates.
HostOf(k) ==
    CASE k = "eventCreate" -> [page |-> "events", slot |-> "a"]
      [] k = "newPost" -> [page |-> "feed", slot |-> "a"]
      [] k = "newComment" -> [page |-> "postDetail", slot |-> "b"]
      [] k = "register" -> [page |-> "eventDetail", slot |-> "b"]
      [] OTHER -> [page |-> "none", slot |-> "none"]

\* The form or button that a page renders.
FormOf(p) ==
    CASE p = "login" -> "login"
      [] p = "events" -> "eventCreate"
      [] p = "usersNew" -> "newUser"
      [] p = "feed" -> "newPost"
      [] p = "postDetail" -> "newComment"
      [] p = "eventDetail" -> "register"
      [] OTHER -> "none"

\* The detail pages return early while loading, on error and without their
\* entity; the other pages always render their form.
formRendered(p, pg) ==
    /\ FormOf(p) # "none"
    /\ p \in {"eventDetail", "postDetail"}
           => ~pg.loading /\ pg.error = NoError /\ pg.dataA # <<>>

\* The form after a render of page p: unmounted, kept, or mounted anew, and
\* the register button with the isRegistered that the page computes.
renderForm(fm, p, pg, usr) ==
    IF ~formRendered(p, pg) THEN NoForm
    ELSE LET kept == IF fm.kind = FormOf(p) THEN fm ELSE InitialForm(FormOf(p), FALSE)
         IN [kept EXCEPT !.isRegistered =
                 FormOf(p) = "register" /\ isRegistered(pg.dataB, usr)]

\* The calls in flight after that render: those of an unmounted form have
\* lost their form, not their page.
renderRequests(reqs, p, pg) ==
    [i \in DOMAIN reqs |->
        [reqs[i] EXCEPT !.live = @ /\ formRendered(p, pg)]]

-----------------------------------------------------------------------------
(* The HTTP helper apiFetch: the request it sends, and what it returns or  *)
(* throws for the response it gets.                                        *)

\* Header sets are functions from header names to values; a value is a
\* sequence of the pieces of text it is concatenated from.
NoHeaders == [n \in {} |-> <<>>]

\* { ...a, ...b }: the members of b replace those of a.
Spread(a, b) ==
    [n \in DOMAIN a \cup DOMAIN b |-> IF n \in DOMAIN b THEN b[n] ELSE a[n]]

\* apiFetch up to its fetch call: the headers of the request.
headers(optionHeaders, tok) ==
    LET plain == Spread([n \in {"Content-Type"} |-> <<"application/json">>],
                        optionHeaders)
    IN IF Truthy(tok)
       THEN Spread(plain, [n \in {"Authorization"} |-> <<"Bearer ">> \o tok.str])
       ELSE plain

\* Response.ok: the status is in the range 200-299.
ResponseOk(status) == status >= 200 /\ status <= 299

\* The decimal digits of a number, as a template literal writes them.
DigitChar(d) ==
    CASE d = 0 -> "0" [] d = 1 -> "1" [] d = 2 -> "2" [] d = 3 -> "3"
      [] d = 4 -> "4" [] d = 5 -> "5" [] d = 6 -> "6" [] d = 7 -> "7"
      [] d = 8 -> "8" [] OTHER -> "9"

RECURSIVE DecimalText(_)
DecimalText(n) ==
    IF n < 10 THEN <<DigitChar(n)>>
    ELSE Append(DecimalText(n \div 10), DigitChar(n % 10))

NoResult == [threw |-> FALSE, name |-> "none", message |-> <<>>, value |-> JSNull]

\* apiFetch after its fetch call, for a response with this status and body:
\* the value it resolves with or the error it rejects with.  res.json()
\* rejects with a SyntaxError when the body is not JSON (the wording of that
\* error is the engine's and is left out).
apiFetch(status, text) ==
    IF ~ResponseOk(status)
    THEN [threw |-> TRUE, name |-> "Error",
          message |-> <<"Error API ">> \o DecimalText(status) \o <<": ">> \o text,
          value |-> JSNull]
    ELSE LET parsed == JSONParse(text) IN
         IF parsed.ok
         THEN [threw |-> FALSE, name |-> "none", message |-> <<>>, value |-> parsed.value]
         ELSE [threw |-> TRUE, name |-> "SyntaxError", message |-> <<>>, value |-> JSNull]

\* No call of apiFetch has been made.
NoExchange ==
    [phase |-> "idle", token |-> JSNull, headers |-> NoHeaders,
     status |-> 0, text |-> <<>>, result |-> NoResult]

-----------------------------------------------------------------------------
(* The store as a state machine: any sequence of calls, and reloads.       *)

OpRecord(name, t, u, raised) == [op |-> name, token |-> t, user |-> u, threw |-> raised]

NoOp == OpRecord("init", JSNull, JSNull, FALSE)

\* before: of a mount, the session that its hydrateFromStorage call found;
\* of a filter change, the events state when the step began.
PageOpRecord(name, p, toLogin, i, slot) ==
    [op |-> name, page |-> p, toLogin |-> toLogin, load |-> i, slot |-> slot,
     before |-> [token |-> JSNull, user |-> JSNull]]

NoPageOp == PageOpRecord("init", "none", FALSE, 0, "none")

\* before: the number of requests in flight when the step began.
FormOpRecord(name, before) == [op |-> name, before |-> before]

NoFormOp == FormOpRecord("init", 0)

\* ops holds the last three operations, the latest last.
Remember(op) == <<ops[2], ops[3], op>>

lastOp == ops[3]

Init ==
    /\ hasWindow \in BOOLEAN
    /\ token = JSNull
    /\ user = JSNull
    /\ storage \in IF hasWindow
                   THEN [token : StoredTokens, user : StoredUsers]
                   ELSE {EmptyStorage}
    /\ ops = <<NoOp, NoOp, NoOp>>
    /\ prev = InitialStoreState(storage)
    /\ route = "none"
    /\ pendingNav = "none"
    /\ page = NoPage
    /\ pageOp = NoPageOp
    /\ prevPage = NoPage
    /\ form = NoForm
    /\ requests = <<>>
    /\ formOp = NoFormOp
    /\ http = NoExchange

StoreBecomes(st) ==
    /\ token' = st.token
    /\ user' = st.user
    /\ storage' = st.storage
    /\ prev' = StoreState
    /\ UNCHANGED <<hasWindow, http>>
    /\ UNCHANGED pageVars
    /\ UNCHANGED formVars

SetAuth(t, u) ==
    LET st == setAuth(StoreState, hasWindow, JSString(t), u) IN
    /\ StoreBecomes(st)
    /\ ops' = Remember(OpRecord("setAuth", JSString(t), u, st.threw))

Logout ==
    LET st == logout(StoreState, hasWindow) IN
    /\ StoreBecomes(st)
    /\ ops' = Remember(OpRecord("logout", JSNull, JSNull, st.threw))

HydrateFromStorage ==
    LET st == hydrateFromStorage(StoreState, hasWindow) IN
    /\ StoreBecomes(st)
    /\ ops' = Remember(OpRecord("hydrate", JSNull, JSNull, st.threw))

\* A page reload: the module is evaluated again, localStorage is kept.
Reload ==
    /\ StoreBecomes(InitialStoreState(storage))
    /\ ops' = Remember(OpRecord("reload", JSNull, JSNull, FALSE))

\* localStorage belongs to the origin, not to the store: another script or
\* tab may set or remove either key at any time.
OutsideWrite(stg) ==
    /\ hasWindow
    /\ stg # storage
    /\ StoreBecomes([StoreState EXCEPT !.storage = stg])
    /\ ops' = Remember(OpRecord("write", JSNull, JSNull, FALSE))

Next ==
    \/ \E t \in Tokens, u \in Users : SetAuth(t, u)
    \/ Logout
    \/ HydrateFromStorage
    \/ Reload
    \/ \E stg \in [token : StoredTokens, user : StoredUsers] : OutsideWrite(stg)

Spec == Init /\ [][Next]_vars

-----------------------------------------------------------------------------
(* The store in one tab that is alone on its origin: localStorage holds    *)
(* only what the store itself has written.                                 *)

\* What the store leaves in localStorage: nothing, or what setAuth wrote.
WrittenStorages ==
    {EmptyStorage}
    \cup {[token |-> JSString(t), user |-> JSString(JSONStringify(u))] :
              t \in Tokens, u \in Users}

TabInit ==
    /\ hasWindow = TRUE
    /\ token = JSNull
    /\ user = JSNull
    /\ storage \in WrittenStorages
    /\ ops = <<NoOp, NoOp, NoOp>>
    /\ prev = InitialStoreState(storage)
    /\ route = "none"
    /\ pendingNav = "none"
    /\ page = NoPage
    /\ pageOp = NoPageOp
    /\ prevPage = NoPage
    /\ form = NoForm
    /\ requests = <<>>
    /\ formOp = NoFormOp
    /\ http = NoExchange

TabNext ==
    \/ \E t \in Tokens, u \in Users : SetAuth(t, u)
    \/ Logout
    \/ HydrateFromStorage
    \/ Reload

TabSpec == TabInit /\ [][TabNext]_vars

-----------------------------------------------------------------------------
(* The pages as a state machine: the tab opens a page (a load or reload of *)
(* the document), a link or a redirect mounts another one, and the fetches *)
(* of the loads in flight answer in any order.                             *)

PageInit ==
    /\ hasWindow = TRUE
    /\ token = JSNull
    /\ user = JSNull
    /\ storage \in [token : StoredTokens, user : StoredUsers]
    /\ ops = <<NoOp, NoOp, NoOp>>
    /\ prev = InitialStoreState(storage)
    /\ route = "none"
    /\ pendingNav = "none"
    /\ page = NoPage
    /\ pageOp = NoPageOp
    /\ prevPage = NoPage
    /\ form = NoForm
    /\ requests = <<>>
    /\ formOp = NoFormOp
    /\ http = NoExchange

\* The session, the route and the page's state once mount m of page p is over.
PageMounts(p, m) ==
    /\ route' = p
    /\ token' = m.store.token
    /\ user' = m.store.user
    /\ storage' = m.store.storage
    /\ page' = m.page
    /\ pendingNav' = m.nav
    /\ pageOp' = [PageOpRecord("mount", p, m.toLogin, 0, "none") EXCEPT !.before = m.before]
    /\ prevPage' = m.page
    /\ UNCHANGED <<hasWindow, ops, prev, http>>

Mounts(p, st) ==
    \E m \in {mount(p, st, hasWindow)} :
    /\ PageMounts(p, m)
    /\ UNCHANGED formVars

\* The document is loaded at page p: the store starts empty.
OpenPage(p) == Mounts(p, InitialStoreState(storage))

\* A link, or the browser's back button, leads to page p.
FollowLink(p) ==
    /\ route # "none"
    /\ pendingNav = "none"
    /\ Mounts(p, StoreState)

\* The router carries out a redirect that a page asked for.
CompleteNavigation ==
    /\ pendingNav # "none"
    /\ Mounts(pendingNav, StoreState)

FetchSucceeds(i, slot, data) ==
    /\ i \in DOMAIN page.loads
    /\ page.loads[i][slot] = "pending"
    /\ page' = settle(page, i, slot, TRUE, data, LoadError(route))
    /\ pageOp' = PageOpRecord("fetchOk", route, FALSE, i, slot)
    /\ prevPage' = page
    /\ UNCHANGED <<hasWindow, token, user, storage, ops, prev, route, pendingNav, http>>
    /\ UNCHANGED formVars

FetchFails(i, slot) ==
    /\ i \in DOMAIN page.loads
    /\ page.loads[i][slot] = "pending"
    /\ page' = settle(page, i, slot, FALSE, <<>>, LoadError(route))
    /\ pageOp' = PageOpRecord("fetchFail", route, FALSE, i, slot)
    /\ prevPage' = page
    /\ UNCHANGED <<hasWindow, token, user, storage, ops, prev, route, pendingNav, http>>
    /\ UNCHANGED formVars

PageNext ==
    \/ \E p \in Pages : OpenPage(p)
    \/ \E p \in Pages : FollowLink(p)
    \/ CompleteNavigation
    \/ \E i \in 1..2 : \E d \in FirstData : FetchSucceeds(i, "a", d)
    \/ \E i \in 1..2 : \E d \in SecondData : FetchSucceeds(i, "b", d)
    \/ \E i \in 1..2, slot \in {"a", "b"} : FetchFails(i, slot)

PageSpec == PageInit /\ [][PageNext]_vars

-----------------------------------------------------------------------------
(* The forms as a state machine: a page showing a form mounts (and         *)
(* hydrates the session), the user types and submits, and the API calls    *)
(* in flight succeed or fail in any order.                                 *)

\* What localStorage holds when the tab opens: nothing, a session that
\* setAuth wrote, or a token with the text null.
FormStorages ==
    {EmptyStorage,
     [token |-> JSString(<<"t", "1">>), user |-> JSString(JSONStringify(User1))],
     [token |-> JSString(<<"t", "1">>), user |-> JSString(<<"n", "u", "l", "l">>)]}

FormInit ==
    /\ hasWindow = TRUE
    /\ token = JSNull
    /\ user = JSNull
    /\ storage \in FormStorages
    /\ ops = <<NoOp, NoOp, NoOp>>
    /\ prev = InitialStoreState(storage)
    /\ route = "none"
    /\ pendingNav = "none"
    /\ page = NoPage
    /\ pageOp = NoPageOp
    /\ prevPage = NoPage
    /\ form = NoForm
    /\ requests = <<>>
    /\ formOp = NoFormOp
    /\ http = NoExchange

\* The calls in flight once their form is unmounted.  Only a login still has
\* something to do when it answers (setAuth and router.push); every other
\* handler is left with set calls on an unmounted component, which change
\* nothing, so its call is no longer tracked.
Detached(reqs) ==
    LET IsLogin(r) == r.kind = "login"
        kept == SelectSeq(reqs, IsLogin)
    IN [i \in DOMAIN kept |-> [kept[i] EXCEPT !.live = FALSE, !.hosted = FALSE]]

\* The page that shows form k mounts: its first effect hydrates the session,
\* and the forms of the page that was shown before are unmounted.
ShowForm(k, registered) ==
    \E st \in {hydrateFromStorage(StoreState, hasWindow)} :
    /\ token' = st.token
    /\ user' = st.user
    /\ storage' = st.storage
    /\ form' = InitialForm(k, registered)
    /\ requests' = Detached(requests)
    /\ formOp' = FormOpRecord("show", Len(requests))
    /\ UNCHANGED <<hasWindow, ops, prev, http>>
    /\ UNCHANGED pageVars

\* onChange of input i.
TypeField(i, v) ==
    /\ i \in DOMAIN form.fields
    /\ form.fields[i] # v
    /\ form' = [form EXCEPT !.fields[i] = v]
    /\ formOp' = FormOpRecord("type", Len(requests))
    /\ UNCHANGED <<requests, storeVars, ops, prev, http>>
    /\ UNCHANGED pageVars

\* onSubmit / onClick.
Submit ==
    /\ form.kind # "none"
    /\ ~buttonDisabled(form)
    /\ \E r \in {handleSubmit(form, token, user)} :
        /\ r.issued => Len(requests) < MaxRequests
        /\ form' = r.form
        /\ requests' = IF r.issued
                       THEN Append(requests, NewRequest(form.kind))
                       ELSE requests
    /\ formOp' = FormOpRecord("submit", Len(requests))
    /\ UNCHANGED <<storeVars, ops, prev, http>>
    /\ UNCHANGED pageVars

\* The API call of request i answers 2xx.  A login stores the session and
\* pushes /events; set calls on an unmounted form change nothing.
RequestSucceeds(i, t, u) ==
    /\ i \in DOMAIN requests
    /\ \E st \in {IF requests[i].kind = "login"
                  THEN setAuth(StoreState, hasWindow, JSString(t), u)
                  ELSE StoreState} :
        /\ token' = st.token
        /\ user' = st.user
        /\ storage' = st.storage
    /\ pendingNav' = IF requests[i].kind = "login" THEN "events" ELSE pendingNav
    /\ form' = IF requests[i].live THEN afterSuccess(form) ELSE form
    /\ requests' = RemoveAt(requests, i)
    /\ formOp' = FormOpRecord("success", Len(requests))
    /\ UNCHANGED <<hasWindow, ops, prev, route, page, pageOp, prevPage, http>>

\* The API call of request i fails.
RequestFails(i) ==
    /\ i \in DOMAIN requests
    /\ form' = IF requests[i].live THEN afterFailure(form) ELSE form
    /\ requests' = RemoveAt(requests, i)
    /\ formOp' = FormOpRecord("failure", Len(requests))
    /\ UNCHANGED <<storeVars, ops, prev, http>>
    /\ UNCHANGED pageVars

FormNext ==
    \/ \E k \in FormKinds, registered \in BOOLEAN : ShowForm(k, registered)
    \/ \E i \in 1..4, v \in FieldValues : TypeField(i, v)
    \/ Submit
    \/ \E i \in 1..MaxRequests : RequestSucceeds(i, <<"t", "2">>, User2)
    \/ \E i \in 1..MaxRequests : RequestFails(i)

FormSpec == FormInit /\ [][FormNext]_vars

-----------------------------------------------------------------------------
(* The pages with their collections and forms: loads answer with           *)
(* entities, the user filters, types, submits and follows links, and the   *)
(* calls in flight succeed or fail in any order.                           *)

Event1 == EventRecord("E1", <<"B", "o">>, <<"2", "5">>)
Event2 == EventRecord("E2", <<"b", "O">>, <<"2", "6">>)
Event3 == EventRecord("E3", <<"b">>, <<"5", "2">>)
EventLists == {<<>>, <<Event3, Event1>>, <<Event1, Event2, Event3>>}

UserId1 == <<"U", "1">>
UserId2 == <<"U", "2">>
EventRegistrations ==
    {<<>>, <<RegistrationRecord("R2", "E1", UserId2)>>,
     <<RegistrationRecord("R2", "E1", UserId2), RegistrationRecord("R1", "E1", UserId1)>>}
UserRegistrations ==
    {<<>>, <<RegistrationRecord("R1", "E1", UserId1)>>,
     <<RegistrationRecord("R3", "E3", UserId1), RegistrationRecord("R1", "E1", UserId1),
       RegistrationRecord("R4", "E3", UserId1)>>}
PostLists == {<<>>, <<PostRecord("P1"), PostRecord("P2")>>}
CommentLists == {<<>>, <<CommentRecord("K1"), CommentRecord("K2")>>}

\* What the server may answer to a fetch of page p.
ResourceData(p, slot) ==
    CASE p = "events" -> EventLists
      [] p = "eventDetail" /\ slot = "a" -> {<<Event1>>}
      [] p = "eventDetail" /\ slot = "b" -> EventRegistrations
      [] p = "profile" /\ slot = "a" -> UserRegistrations
      [] p = "profile" /\ slot = "b" -> EventLists
      [] p = "feed" -> PostLists
      [] p = "postDetail" /\ slot = "a" -> {<<PostRecord("P1")>>}
      [] p = "postDetail" /\ slot = "b" -> CommentLists
      [] OTHER -> {}

NoItem == [id |-> "none"]

\* What the server may answer to a creation.
CreatedItems(k) ==
    CASE k = "eventCreate" -> {EventRecord("E9", <<"B", "O">>, <<"2", "5">>)}
      [] k = "newPost" -> {PostRecord("P9")}
      [] k = "newComment" -> {CommentRecord("K9")}
      [] k = "register" -> {RegistrationRecord("R9", "E1", u) : u \in {UserId1, UserId2}}
      [] OTHER -> {NoItem}

CityFilters == {<<>>, <<"b">>, <<"B", "O">>}
DateFilters == {<<>>, <<"2">>, <<"5">>}
ValidText == <<" ", "a">>

MaxItems == 3

\* before: the callback's collection when the step began.
CreatedOpRecord(k, item, hosted) ==
    [op |-> "created", page |-> route, toLogin |-> FALSE, load |-> 0,
     slot |-> HostOf(k).slot, kind |-> k, item |-> item, hosted |-> hosted,
     before |-> IF HostOf(k).slot = "a" THEN page.dataA ELSE page.dataB]

\* The answer to call r: whether its form and its page were still mounted,
\* and the navigation that was pending.
AnswerOpRecord(name, r) ==
    [op |-> name, before |-> 0, kind |-> r.kind, live |-> r.live,
     hosted |-> r.hosted, nav |-> pendingNav]

ViewInit ==
    /\ hasWindow = TRUE
    /\ token = JSNull
    /\ user = JSNull
    /\ storage \in FormStorages
    /\ ops = <<NoOp, NoOp, NoOp>>
    /\ prev = InitialStoreState(storage)
    /\ route = "none"
    /\ pendingNav = "none"
    /\ page = NoPage
    /\ pageOp = NoPageOp
    /\ prevPage = NoPage
    /\ form = NoForm
    /\ requests = <<>>
    /\ formOp = NoFormOp
    /\ http = NoExchange

\* Page p mounts on store state st and renders its form; reqs are the
\* calls that are still awaited.
Visits(p, st, reqs) ==
    \E m \in {mount(p, st, hasWindow)} :
    /\ PageMounts(p, m)
    /\ form' = renderForm(NoForm, p, m.page, m.store.user)
    /\ requests' = reqs
    /\ formOp' = FormOpRecord("show", 0)

\* The document is loaded at page p: nothing of the old document is left.
ViewOpen(p) == Visits(p, InitialStoreState(storage), <<>>)

\* A link of the layout, or the browser's back button.
ViewFollow(p) ==
    /\ route # "none"
    /\ pendingNav = "none"
    /\ Visits(p, StoreState, Detached(requests))

\* The router carries out a router.replace or router.push; to the route
\* already shown it mounts nothing.
ViewRedirect ==
    /\ pendingNav # "none"
    /\ IF pendingNav = route
       THEN /\ pendingNav' = "none"
            /\ pageOp' = PageOpRecord("stay", route, FALSE, 0, "none")
            /\ prevPage' = page
            /\ formOp' = FormOpRecord("page", 0)
            /\ UNCHANGED <<storeVars, ops, prev, route, page, form, requests, http>>
       ELSE Visits(pendingNav, StoreState, Detached(requests))

\* One fetch of load i has answered (ok, with data) or failed.
Answered(i, slot, ok, data) ==
    /\ i \in DOMAIN page.loads
    /\ page.loads[i][slot] = "pending"
    /\ \E pg \in {settle(page, i, slot, ok, data, LoadError(route))} :
        /\ page' = pg
        /\ form' = renderForm(form, route, pg, user)
        /\ requests' = renderRequests(requests, route, pg)
    /\ pageOp' = PageOpRecord(IF ok THEN "fetchOk" ELSE "fetchFail", route, FALSE, i, slot)
    /\ prevPage' = page
    /\ formOp' = FormOpRecord("page", 0)
    /\ UNCHANGED <<storeVars, ops, prev, route, pendingNav, http>>

ListArrives(i, slot, data) ==
    /\ data \in ResourceData(route, slot)
    /\ Answered(i, slot, TRUE, data)

ListFails(i, slot) == Answered(i, slot, FALSE, <<>>)

\* EventFilters: handleCityChange / handleDateChange, then handleFilterChange.
ChangeFilters(city, date) ==
    /\ route = "events"
    /\ pendingNav = "none"
    /\ \/ city # page.cityFilter /\ date = page.dateFilter
       \/ city = page.cityFilter /\ date # page.dateFilter
    /\ page' = [page EXCEPT !.cityFilter = city, !.dateFilter = date]
    /\ pageOp' = [PageOpRecord("filter", route, FALSE, 0, "none")
                      EXCEPT !.before = page.dataA]
    /\ prevPage' = page'
    /\ formOp' = FormOpRecord("page", 0)
    /\ UNCHANGED <<storeVars, ops, prev, route, pendingNav, form, requests, http>>

\* The user fills in every input of the form: one onChange for each.
FillForm ==
    /\ pendingNav = "none"
    /\ form.fields # <<>>
    /\ \E i \in DOMAIN form.fields : form.fields[i] # ValidText
    /\ form' = [form EXCEPT !.fields = [i \in DOMAIN @ |-> ValidText]]
    /\ formOp' = FormOpRecord("type", 0)
    /\ UNCHANGED <<requests, storeVars, ops, prev, http>>
    /\ UNCHANGED pageVars

\* The state that the callback of form k updates.
Collection(pg, k) == IF HostOf(k).slot = "a" THEN pg.dataA ELSE pg.dataB

ViewSubmit ==
    /\ pendingNav = "none"
    /\ HostOf(form.kind).page # "none" => Len(Collection(page, form.kind)) < MaxItems
    /\ Submit

\* The handler of call i after its await resolves: a login stores the
\* session and pushes /events (the mounted page's effects on [token] run
\* again); a creation calls the page's callback; then the form's own sets.
CallSucceeds(i, item) ==
    /\ i \in DOMAIN requests
    /\ item \in CreatedItems(requests[i].kind)
    /\ \E r \in {requests[i]} :
       \E st \in {IF r.kind = "login"
                  THEN setAuth(StoreState, hasWindow, JSString(<<"t", "2">>), User2)
                  ELSE StoreState} :
       \E added \in {addCreated(r.kind, Collection(page, r.kind), item)} :
       \E pg \in {IF r.kind = "login"
                  THEN IF st.token # token /\ loadEffectRuns(route, st.token, st.user)
                       THEN startLoad(page, route) ELSE page
                  ELSE IF ~r.hosted \/ HostOf(r.kind).page = "none" THEN page
                  ELSE IF HostOf(r.kind).slot = "a"
                       THEN [page EXCEPT !.dataA = added.next]
                       ELSE [page EXCEPT !.dataB = added.next]} :
        /\ token' = st.token
        /\ user' = st.user
        /\ storage' = st.storage
        /\ pendingNav' = IF r.kind = "login" THEN "events" ELSE pendingNav
        /\ page' = pg
        /\ prevPage' = IF ~r.hosted \/ HostOf(r.kind).page = "none" THEN page
                       ELSE IF HostOf(r.kind).slot = "a"
                            THEN [page EXCEPT !.dataA = added.prev]
                            ELSE [page EXCEPT !.dataB = added.prev]
        /\ form' = renderForm(IF r.live THEN afterSuccess(form) ELSE form,
                              route, pg, st.user)
        /\ requests' = renderRequests(RemoveAt(requests, i), route, pg)
        /\ pageOp' = CreatedOpRecord(r.kind, item, r.hosted)
        /\ formOp' = AnswerOpRecord("success", r)
    /\ prev' = StoreState
    /\ UNCHANGED <<hasWindow, ops, route, http>>

\* The handler of call i after its await rejects: catch and finally.
CallFails(i) ==
    /\ i \in DOMAIN requests
    /\ form' = IF requests[i].live THEN afterFailure(form) ELSE form
    /\ requests' = RemoveAt(requests, i)
    /\ formOp' = AnswerOpRecord("failure", requests[i])
    /\ pageOp' = PageOpRecord("callFail", route, FALSE, 0, "none")
    /\ prevPage' = page
    /\ prev' = StoreState
    /\ UNCHANGED <<storeVars, ops, route, pendingNav, page, http>>

ViewNext ==
    \/ \E p \in Pages : ViewOpen(p)
    \/ \E p \in Pages : ViewFollow(p)
    \/ ViewRedirect
    \/ \E i \in 1..2, slot \in {"a", "b"} :
           \E data \in ResourceData(route, slot) : ListArrives(i, slot, data)
    \/ \E i \in 1..2, slot \in {"a", "b"} : ListFails(i, slot)
    \/ \E city \in CityFilters, date \in DateFilters : ChangeFilters(city, date)
    \/ FillForm
    \/ ViewSubmit
    \/ \E i \in 1..MaxRequests :
           \E item \in UNION {CreatedItems(k) : k \in FormKinds} : CallSucceeds(i, item)
    \/ \E i \in 1..MaxRequests : CallFails(i)

ViewSpec == ViewInit /\ [][ViewNext]_vars

-----------------------------------------------------------------------------
(* The same pages in one document that is loaded once: the router carries  *)
(* out every navigation that a page has asked for.                         *)

\* The document is loaded, at page p.
FirstOpen(p) ==
    /\ route = "none"
    /\ ViewOpen(p)

SessionNext ==
    \/ \E p \in Pages : FirstOpen(p)
    \/ \E p \in Pages : ViewFollow(p)
    \/ ViewRedirect
    \/ \E i \in 1..2, slot \in {"a", "b"} :
           \E data \in ResourceData(route, slot) : ListArrives(i, slot, data)
    \/ \E i \in 1..2, slot \in {"a", "b"} : ListFails(i, slot)
    \/ \E city \in CityFilters, date \in DateFilters : ChangeFilters(city, date)
    \/ FillForm
    \/ ViewSubmit
    \/ \E i \in 1..MaxRequests :
           \E item \in UNION {CreatedItems(k) : k \in FormKinds} : CallSucceeds(i, item)
    \/ \E i \in 1..MaxRequests : CallFails(i)

\* router.replace and router.push start a navigation that completes by
\* itself: weak fairness of ViewRedirect.  This is WF_vars(ViewRedirect)
\* with ENABLED <<ViewRedirect>>_vars written as the guard of ViewRedirect,
\* each of whose branches changes pendingNav or route.
RouterCompletes == []<>(pendingNav = "none") \/ []<><<ViewRedirect>>_vars

SessionSpec == ViewInit /\ [][SessionNext]_vars /\ RouterCompletes

-----------------------------------------------------------------------------
(* One call of apiFetch after the other: the request goes out, the server  *)
(* answers with any status and body.                                       *)

\* The token argument of apiFetch: absent, empty, or a token.
TokenArguments == {JSNull, JSString(<<>>), JSString(<<"t", "1">>)}

\* options.headers: no caller in api.ts passes any; one more header is
\* drawn to exercise the spread.
OptionHeaders == {NoHeaders, [n \in {"Accept"} |-> <<"application/json">>]}

Statuses == {200, 201, 204, 299, 300, 304, 400, 401, 404, 500}

\* Response bodies: empty, JSON texts, and texts that are not JSON.
Bodies ==
    {<<>>, <<"n", "u", "l", "l">>, JSONStringify(User1), TruncatedPayload,
     <<"N", "o", "t", " ", "f", "o", "u", "n", "d">>}

ApiInit ==
    /\ hasWindow = TRUE
    /\ token = JSNull
    /\ user = JSNull
    /\ storage = EmptyStorage
    /\ ops = <<NoOp, NoOp, NoOp>>
    /\ prev = InitialStoreState(storage)
    /\ route = "none"
    /\ pendingNav = "none"
    /\ page = NoPage
    /\ pageOp = NoPageOp
    /\ prevPage = NoPage
    /\ form = NoForm
    /\ requests = <<>>
    /\ formOp = NoFormOp
    /\ http = NoExchange

\* apiFetch is called and sends its request.
SendRequest(optionHeaders, tok) ==
    /\ http.phase # "sent"
    /\ http' = [NoExchange EXCEPT !.phase = "sent", !.token = tok,
                                  !.headers = headers(optionHeaders, tok)]
    /\ UNCHANGED <<storeVars, ops, prev>>
    /\ UNCHANGED pageVars
    /\ UNCHANGED formVars

\* The response arrives and apiFetch returns or throws.
ReceiveResponse(status, text) ==
    /\ http.phase = "sent"
    /\ http' = [http EXCEPT !.phase = "done", !.status = status, !.text = text,
                            !.result = apiFetch(status, text)]
    /\ UNCHANGED <<storeVars, ops, prev>>
    /\ UNCHANGED pageVars
    /\ UNCHANGED formVars

ApiNext ==
    \/ \E optionHeaders \in OptionHeaders, tok \in TokenArguments :
           SendRequest(optionHeaders, tok)
    \/ \E status \in Statuses, text \in Bodies : ReceiveResponse(status, text)

ApiSpec == ApiInit /\ [][ApiNext]_vars

-----------------------------------------------------------------------------
(* Properties of the session store.                                        *)

\* The operation k steps before the last one.
OpBack(k) == ops[3 - k]

Authenticated == token # JSNull /\ user # JSNull
Unauthenticated == token = JSNull /\ user = JSNull
WasAuthenticated == prev.token # JSNull /\ prev.user # JSNull
WasUnauthenticated == prev.token = JSNull /\ prev.user = JSNull

\* Both keys pass the (token && userStr) test of hydrateFromStorage.
BothKeysTruthy(stg) == Truthy(stg.token) /\ Truthy(stg.user)
\* Both keys exist (getItem does not return null).
BothKeysPresent(stg) == stg.token # JSNull /\ stg.user # JSNull
Deserializes(stg) == JSONParse(stg.user.str).ok

\* C1: in every reachable state the session has token and user both set or
\* both null, whatever the two persisted keys held.
C1_TokenAndUserTogether == (token = JSNull) <=> (user = JSNull)

\* C2 as stated: both keys present and the user payload not deserializable:
\* hydrateFromStorage ends with the session empty, both keys removed and no
\* exception, whatever the session was before.
C2_CorruptPayloadEmptiesSession ==
    (lastOp.op = "hydrate" /\ BothKeysTruthy(prev.storage) /\ ~Deserializes(prev.storage))
        => /\ Unauthenticated
           /\ storage = EmptyStorage
           /\ ~lastOp.threw

\* C2 amended: both keys hold non-empty strings and the user payload is not
\* deserializable: hydrateFromStorage removes both keys, leaves the in-memory
\* session as it was before the call, and raises nothing.
C2_CorruptPayloadClearsStorage ==
    (lastOp.op = "hydrate" /\ BothKeysTruthy(prev.storage) /\ ~Deserializes(prev.storage))
        => /\ storage = EmptyStorage
           /\ token = prev.token
           /\ user = prev.user
           /\ ~lastOp.threw

C2_Witness ==
    /\ lastOp.op = "hydrate"
    /\ BothKeysTruthy(prev.storage)
    /\ ~Deserializes(prev.storage)
    /\ WasAuthenticated
    /\ Authenticated

\* C3: setAuth(t, u), then a reload, then hydrateFromStorage, in a browser:
\* the session is {t, u} again.
C3_RoundTrip ==
    (/\ hasWindow
     /\ OpBack(2).op = "setAuth"
     /\ OpBack(1).op = "reload"
     /\ OpBack(0).op = "hydrate")
        => /\ token = OpBack(2).token
           /\ user = OpBack(2).user

C3_Witness ==
    /\ hasWindow
    /\ OpBack(2).op = "setAuth"
    /\ OpBack(1).op = "reload"
    /\ OpBack(0).op = "hydrate"
    /\ OpBack(2).user = User2
    /\ user = User2

\* C5: logout yields {null, null} with both keys removed from any state, and
\* a second logout changes nothing.
C5_LogoutClearsAndIsIdempotent ==
    /\ lastOp.op = "logout"
           => Unauthenticated /\ storage = EmptyStorage /\ ~lastOp.threw
    /\ (OpBack(1).op = "logout" /\ OpBack(0).op = "logout")
           => StoreState = prev

C5_Witness ==
    /\ hasWindow
    /\ OpBack(2).op = "setAuth"
    /\ OpBack(1).op = "logout"
    /\ OpBack(0).op = "logout"

\* C6: every step follows the two-state machine: setAuth leads to
\* Authenticated, logout to Unauthenticated, hydrateFromStorage from
\* Unauthenticated to Authenticated only with data that deserializes and
\* otherwise stays Unauthenticated, and from Authenticated it stays
\* Authenticated, with the persisted values when they are there.
C6_TwoStateMachine ==
    /\ lastOp.op = "setAuth" => Authenticated
    /\ lastOp.op = "logout" => Unauthenticated
    /\ (lastOp.op = "hydrate" /\ WasUnauthenticated)
           => \/ Unauthenticated
              \/ Authenticated /\ BothKeysTruthy(prev.storage) /\ Deserializes(prev.storage)
    /\ (lastOp.op = "hydrate" /\ WasAuthenticated)
           => /\ Authenticated
              /\ (BothKeysTruthy(prev.storage) /\ Deserializes(prev.storage))
                     => /\ token = prev.storage.token
                        /\ user = JSONParse(prev.storage.user.str).value

\* C8: with the persisted token or the persisted user absent,
\* hydrateFromStorage changes neither the session nor localStorage.
C8_AbsentKeyLeavesAllUnchanged ==
    (lastOp.op = "hydrate" /\ ~BothKeysPresent(prev.storage))
        => StoreState = prev

C8_Witness ==
    /\ hasWindow
    /\ lastOp.op = "hydrate"
    /\ prev.storage.token # JSNull
    /\ prev.storage.user = JSNull
    /\ Authenticated

\* C9: after setAuth(t, u) in a browser the session is exactly {t, u} and
\* the keys hold t and the serialization of u.
C9_SetAuthReplacesSessionAndKeys ==
    (lastOp.op = "setAuth" /\ hasWindow)
        => /\ token = lastOp.token
           /\ user = lastOp.user
           /\ storage = [token |-> lastOp.token,
                         user |-> JSString(JSONStringify(lastOp.user))]

C9_Witness ==
    /\ lastOp.op = "setAuth"
    /\ hasWindow
    /\ WasAuthenticated
    /\ prev.token # token
    /\ prev.user # user
    /\ prev.storage.user # storage.user

-----------------------------------------------------------------------------
(* Properties of the pages.                                                *)

\* C4: a protected page's mount hydrates the session first and asks for
\* /login only if the session has no token after that hydration.
C4_LoginRedirectOnlyWithoutToken ==
    (pageOp.op = "mount" /\ pageOp.toLogin) => token = JSNull

SettledLoad == prevPage.loads[pageOp.load]
OtherAnswer == IF pageOp.slot = "a" THEN SettledLoad.b ELSE SettledLoad.a
DataUnchanged == page.dataA = prevPage.dataA /\ page.dataB = prevPage.dataB

\* C7: on the pages that load two resources both fetches of a load are
\* issued together; a failed fetch leaves both data states as they were and
\* sets the error message; an answer that is not the last of a successful
\* load stores nothing.
C7_LoadCommitsAllOrNothing ==
    /\ (pageOp.op = "mount" /\ Fetches(route) = 2)
           => \A i \in DOMAIN page.loads :
                  page.loads[i].a = "pending" /\ page.loads[i].b = "pending"
    /\ (pageOp.op = "fetchFail" /\ Fetches(route) = 2)
           => DataUnchanged /\ page.error # NoError
    /\ (pageOp.op = "fetchOk" /\ Fetches(route) = 2 /\ OtherAnswer # "ok")
           => DataUnchanged /\ page.error = prevPage.error

C7_Witness ==
    /\ pageOp.op = "fetchFail"
    /\ Fetches(route) = 2
    /\ pageOp.slot = "b"
    /\ SettledLoad.a = "ok"
    /\ SettledLoad.dataA # <<>>
    /\ page.dataA = <<>>
    /\ page.error # NoError

-----------------------------------------------------------------------------
(* Properties of the forms.                                                *)

\* Empty or made of white space only.
Blank(s) == \A i \in DOMAIN s : s[i] = " "

TokenMissing == token = JSNull \/ token = JSString(<<>>)
UserMissing == user = JSNull

\* What the submitted form lacks for its call.
SubmitLacksInput ==
    \/ \E i \in DOMAIN form.fields : Blank(form.fields[i])
    \/ form.kind \notin {"login", "register"} /\ TokenMissing
    \/ form.kind = "register" /\ (TokenMissing \/ UserMissing)

\* C10: a submit with a required field empty or blank, or without the
\* token (register: token or user) its call needs, issues no API call and
\* sets the form's error message.
C10_InvalidSubmitIssuesNoCall ==
    (formOp.op = "submit" /\ SubmitLacksInput)
        => /\ Len(requests) = formOp.before
           /\ form.error # NoError
           /\ ~form.loading

C10_Witness ==
    /\ formOp.op = "submit"
    /\ form.kind = "eventCreate"
    /\ ~TokenMissing
    /\ form.fields[1] = <<" ", " ">>
    /\ \A i \in 2..4 : form.fields[i] = <<" ", "a">>
    /\ form.error = FieldsError("eventCreate")

-----------------------------------------------------------------------------
(* Properties of the pages' collections.                                   *)

\* The userId values of the current user: none without a user.
CurrentUserIds ==
    IF user.type # "object" THEN {}
    ELSE {user.members[j][2] : j \in {k \in DOMAIN user.members :
                                          user.members[k][1] = KeyUserId}}

OwnRegistration(registrations) ==
    \E i \in DOMAIN registrations : registrations[i].userId \in CurrentUserIds

\* C11: on the event-detail page isRegistered is true exactly when some
\* registration of the registrations state carries the current user's
\* userId, it is false without a current user, and it is what the register
\* button receives.
C11_IsRegisteredIffOwnRegistration ==
    route = "eventDetail"
        => /\ isRegistered(page.dataB, user) <=> OwnRegistration(page.dataB)
           /\ user = JSNull => ~isRegistered(page.dataB, user)
           /\ form.kind = "register" => (form.isRegistered <=> OwnRegistration(page.dataB))

C11_Witness ==
    /\ route = "eventDetail"
    /\ form.kind = "register"
    /\ form.isRegistered
    /\ Len(page.dataB) = 2
    /\ page.dataB[1].userId \notin CurrentUserIds

\* A registration for the current user has just been created from the
\* mounted event-detail page.
RegisteredOwn ==
    /\ pageOp.op = "created"
    /\ pageOp.kind = "register"
    /\ pageOp.hosted
    /\ pageOp.item.userId \in CurrentUserIds

\* C12: after a successful createRegistration for the current user the
\* returned registration is the last element of the registrations state,
\* the elements before it are the former state, isRegistered is true, and
\* the page has started no fetch.
C12_RegistrationAppendedWithoutRefetch ==
    RegisteredOwn
        => /\ page.dataB = pageOp.before \o <<pageOp.item>>
           /\ isRegistered(page.dataB, user)
           /\ form.kind = "register" => form.isRegistered
           /\ page.loads = prevPage.loads
           /\ page.dataA = prevPage.dataA

C12_Witness ==
    /\ RegisteredOwn
    /\ Len(page.dataB) = 2
    /\ ~isRegistered(pageOp.before, user)
    /\ form.kind = "register"
    /\ form.isRegistered

\* Letters equal up to case.
SameLetter(a, b) == a = b \/ {a, b} = {"B", "b"} \/ {a, b} = {"O", "o"}

EqualIgnoringCase(s, t) ==
    /\ Len(s) = Len(t)
    /\ \A i \in DOMAIN s : SameLetter(s[i], t[i])

IsPrefix(pre, s) == \E n \in 0..Len(s) : SubSeq(s, 1, n) = pre

\* The elements of items at the positions in keep, in the order of items.
Kept(items, keep) ==
    [j \in 1..Cardinality(keep) |->
        items[CHOOSE i \in keep : Cardinality({k \in keep : k <= i}) = j]]

EventMatches(e) ==
    /\ page.cityFilter = <<>> \/ EqualIgnoringCase(e.city, page.cityFilter)
    /\ page.dateFilter = <<>> \/ IsPrefix(page.dateFilter, e.date)

ShownEvents == filteredEvents(page.dataA, page.cityFilter, page.dateFilter)

\* C13: the list of the events page holds exactly the events of the events
\* state that pass both filters (city equal ignoring case, date a prefix; an
\* empty filter passes everything), in the order of the events state.
C13_FilteredEventsExact ==
    route = "events"
        => /\ ShownEvents = Kept(page.dataA, {i \in DOMAIN page.dataA : EventMatches(page.dataA[i])})
           /\ (page.cityFilter = <<>> /\ page.dateFilter = <<>>) => ShownEvents = page.dataA

C13_Witness ==
    /\ route = "events"
    /\ page.cityFilter = <<"B", "O">>
    /\ page.dateFilter = <<"2">>
    /\ Len(page.dataA) >= 3
    /\ Len(ShownEvents) = 2
    /\ ShownEvents[1].city # ShownEvents[2].city

JoinedEvents == joinedEvents(page.dataB, page.dataA)

\* C14: the joined-events list of the profile page holds exactly the events
\* of the events state whose eventId occurs in a registration of the
\* registrations state, each once and in the order of the events state.
C14_JoinedEventsExact ==
    route = "profile"
        => JoinedEvents =
               Kept(page.dataB,
                    {i \in DOMAIN page.dataB :
                        \E j \in DOMAIN page.dataA :
                            page.dataA[j].eventId = page.dataB[i].eventId})

C14_Witness ==
    /\ route = "profile"
    /\ Len(page.dataA) = 3
    /\ Len(page.dataB) = 3
    /\ Len(JoinedEvents) = 2
    /\ JoinedEvents[1].eventId = "E1"

\* A creation has just answered and its page's callback has run.
CreatedHere ==
    /\ pageOp.op = "created"
    /\ pageOp.hosted
    /\ pageOp.kind \in {"eventCreate", "newPost", "newComment", "register"}

\* C15: after a successful creation the new entity is first in the
\* collection for events and posts and last for comments and registrations,
\* the rest of the collection is the former collection in its order, and
\* the former array still holds what it held.
C15_CreatedGoesFrontOrBack ==
    CreatedHere
        => /\ pageOp.kind \in {"eventCreate", "newPost"}
                  => Collection(page, pageOp.kind) = <<pageOp.item>> \o pageOp.before
           /\ pageOp.kind \in {"newComment", "register"}
                  => Collection(page, pageOp.kind) = pageOp.before \o <<pageOp.item>>
           /\ Collection(prevPage, pageOp.kind) = pageOp.before

C15_Witness ==
    /\ CreatedHere
    /\ pageOp.kind = "eventCreate"
    /\ Len(pageOp.before) = 2
    /\ page.dataA[1] = pageOp.item
    /\ page.dataA[1] # page.dataA[2]

-----------------------------------------------------------------------------
(* Properties of failures, of calls that outlive their page, of hydration  *)
(* on mount, and of retries.                                               *)

\* C16: a failed fetch of a page's load, and a failed call of a mounted
\* form, end in the handler's catch and finally: the component's error
\* message is set, its loading flag is false, and no rejection leaves an
\* async function of a page or of a form.
C16_FailuresCaughtInHandler ==
    /\ pageOp.op = "fetchFail" => page.error = LoadError(route) /\ ~page.loading
    /\ (formOp.op = "failure" /\ formOp.live)
           => form.error = SubmitError(formOp.kind) /\ ~form.loading
    /\ ~page.unhandled
    /\ ~form.unhandled

C16_Witness ==
    /\ route = "feed"
    /\ page.error = LoadError("feed")
    /\ formOp.op = "failure"
    /\ formOp.live
    /\ formOp.kind = "newPost"
    /\ form.error = SubmitError("newPost")

SessionAsBefore ==
    /\ token = prev.token
    /\ user = prev.user
    /\ storage = prev.storage

\* The call that has just answered was issued by a page that is no longer
\* mounted.
AnsweredAfterLeaving ==
    /\ formOp.op \in {"success", "failure"}
    /\ ~formOp.live
    /\ ~formOp.hosted

\* C17: the answer to a call whose page the user has left changes neither
\* the session (in memory or in storage), nor the route (no navigation is
\* asked for), nor the state of the page now shown.
C17_CallOfLeftPageHasNoEffect ==
    AnsweredAfterLeaving
        => /\ SessionAsBefore
           /\ pendingNav = formOp.nav
           /\ page = prevPage

\* C18 as stated: a page's mount calls hydrateFromStorage only on a session
\* without token.
C18_HydrateOnlyWithoutToken ==
    pageOp.op = "mount" => pageOp.before.token = JSNull

\* C18: every mount calls hydrateFromStorage, also on a session that has a
\* token; with the persisted keys as the session's last writer left them,
\* the session's token and user are afterwards what they were.
C18_HydrateKeepsAuthenticatedSession ==
    (pageOp.op = "mount" /\ pageOp.before.token # JSNull)
        => /\ token = pageOp.before.token
           /\ user = pageOp.before.user

C18_Witness ==
    /\ pageOp.op = "mount"
    /\ pageOp.before.token = JSString(<<"t", "2">>)
    /\ user = User2
    /\ route = "profile"

\* What the user can do on the page shown without leaving it.
UserActsOnPage ==
    \/ \E city \in CityFilters, date \in DateFilters : ChangeFilters(city, date)
    \/ FillForm
    \/ ViewSubmit

\* The user starts the page's load again from the page shown.
RetryLoad ==
    /\ UserActsOnPage
    /\ Len(page'.loads) > Len(page.loads)

\* C19: after a failure shown as an error message the failed action can be
\* invoked again from the same page (a failed load as well as a failed
\* submit), and the success of a submit leaves no error message.
C19_FailedActionCanBeRetried ==
    /\ (page.error # NoError /\ page.loads = <<>> /\ pendingNav = "none")
           => ENABLED RetryLoad
    /\ (formOp.op = "failure" /\ formOp.live)
           => ~buttonDisabled(form) /\ handleSubmit(form, token, user).issued
    /\ (formOp.op = "success" /\ formOp.live) => form.error = NoError

\* C20: a failed call feeds nothing into the session store or the page's
\* collections: a failed login, creation or registration leaves the
\* session, the persisted keys and the page's data states as they were,
\* and so does a failed fetch of a load with the page's data states.
C20_FailedCallFeedsNoData ==
    /\ formOp.op = "failure"
           => /\ SessionAsBefore
              /\ page.dataA = prevPage.dataA
              /\ page.dataB = prevPage.dataB
    /\ pageOp.op = "fetchFail"
           => /\ page.dataA = prevPage.dataA
              /\ page.dataB = prevPage.dataB

C20_Witness ==
    /\ formOp.op = "failure"
    /\ formOp.kind = "login"
    /\ formOp.live
    /\ form.error = SubmitError("login")
    /\ token = JSNull
    /\ storage = EmptyStorage

-----------------------------------------------------------------------------
(* Properties of the event-detail page's participant count.                *)

\* The event-detail page has passed its early returns and shows the event.
DetailShown ==
    /\ route = "eventDetail"
    /\ ~page.loading
    /\ page.error = NoError
    /\ page.dataA # <<>>

\* C21: whenever the event-detail page shows the event, the participant
\* count on display is the number of elements of the registrations state:
\* after a load it is the number of registrations loaded, after a locally
\* appended registration it is one more than before.
C21_CountIsRegistrationsLength ==
    /\ DetailShown
           => participantsCount(page.dataB) = Cardinality(DOMAIN page.dataB)
    /\ (DetailShown /\ pageOp.op = "fetchOk" /\ pageOp.slot = "a")
           => participantsCount(page.dataB) = Cardinality(DOMAIN SettledLoad.dataB)
    /\ (DetailShown /\ pageOp.op = "created" /\ pageOp.kind = "register" /\ pageOp.hosted)
           => participantsCount(page.dataB) = Cardinality(DOMAIN pageOp.before) + 1

C21_Witness ==
    /\ DetailShown
    /\ pageOp.op = "created"
    /\ pageOp.kind = "register"
    /\ pageOp.hosted
    /\ Len(pageOp.before) = 2
    /\ page.dataB[3].userId = page.dataB[1].userId
    /\ participantsCount(page.dataB) = 3

-----------------------------------------------------------------------------
(* Further properties of the session store.                                *)

\* C22: in a runtime without window (server-side rendering)
\* hydrateFromStorage changes nothing and raises nothing: session and
\* storage are after the call what they were before it.
C22_HydrateWithoutWindowIsNoOp ==
    (lastOp.op = "hydrate" /\ ~hasWindow)
        => /\ StoreState = prev
           /\ ~lastOp.threw

C22_Witness ==
    /\ ~hasWindow
    /\ OpBack(1).op = "setAuth"
    /\ lastOp.op = "hydrate"
    /\ token = OpBack(1).token
    /\ user = User2

-----------------------------------------------------------------------------
(* Properties of the HTTP helper.                                          *)

\* The number that three decimal digits write.
DigitValue(c) == CHOOSE d \in 0..9 : DigitChar(d) = c
StatusWritten(message) ==
    100 * DigitValue(message[2]) + 10 * DigitValue(message[3]) + DigitValue(message[4])

\* The request carries "Authorization: Bearer <token>" exactly when the
\* token argument is a non-empty string.
BearerExactlyWithToken ==
    http.phase # "idle"
        => /\ ("Authorization" \in DOMAIN http.headers)
                  <=> (http.token.type = "string" /\ http.token.str # <<>>)
           /\ "Authorization" \in DOMAIN http.headers
                  => /\ http.headers["Authorization"][1] = "Bearer "
                     /\ Tail(http.headers["Authorization"]) = http.token.str

\* A status outside 200-299 makes apiFetch throw an error whose message
\* holds the status code and the response text.
ErrorCarriesStatusAndText ==
    (http.phase = "done" /\ (http.status < 200 \/ http.status > 299))
        => /\ http.result.threw
           /\ Len(http.result.message) >= 5
           /\ StatusWritten(http.result.message) = http.status
           /\ SubSeq(http.result.message, 6, Len(http.result.message)) = http.text

\* C23: apiFetch returns the parsed body when the status is in 200-299 and
\* otherwise throws an error carrying the status code and the response
\* text, and it sends the Authorization bearer header exactly when a
\* non-empty token is passed.
C23_ApiFetchContract ==
    /\ BearerExactlyWithToken
    /\ ErrorCarriesStatusAndText
    /\ (http.phase = "done" /\ http.status >= 200 /\ http.status <= 299)
           => ~http.result.threw

-----------------------------------------------------------------------------
(* Properties of the store in a tab that is alone on its origin.           *)

\* C24: with localStorage available and written by the store only, after
\* any sequence of setAuth, logout, hydrateFromStorage and reloads a session
\* that is not empty has its token under "token" and the serialization of
\* its user under "user".
C24_SessionMatchesPersistedKeys ==
    (token # JSNull \/ user # JSNull)
        => /\ storage.token = token
           /\ storage.user = JSString(JSONStringify(user))

C24_Witness ==
    /\ OpBack(2).op = "setAuth"
    /\ OpBack(1).op = "setAuth"
    /\ OpBack(2).token # OpBack(1).token
    /\ OpBack(2).user # OpBack(1).user
    /\ lastOp.op = "hydrate"
    /\ token = OpBack(1).token
    /\ storage.user = JSString(JSONStringify(User2))

-----------------------------------------------------------------------------
(* Properties of the store after logout.                                   *)

\* Logged out: nothing in memory and nothing under the two keys.
LoggedOut == Unauthenticated /\ storage = EmptyStorage
WasLoggedOut == WasUnauthenticated /\ prev.storage = EmptyStorage

\* C26: in a browser logout leaves the store logged out, and every
\* hydrateFromStorage and every reload that starts logged out ends logged
\* out: until the next setAuth no hydration restores a session.
C26_LoggedOutStaysLoggedOut ==
    /\ (hasWindow /\ lastOp.op = "logout") => LoggedOut
    /\ (hasWindow /\ lastOp.op \in {"hydrate", "reload"} /\ WasLoggedOut) => LoggedOut

C26_Witness ==
    /\ hasWindow
    /\ OpBack(2).op = "logout"
    /\ OpBack(1).op = "reload"
    /\ lastOp.op = "hydrate"
    /\ WasLoggedOut
    /\ LoggedOut

-----------------------------------------------------------------------------
(* Properties of loads that overlap.                                       *)

\* The last step was the answer that completed a load and stored its data.
LoadCommitted ==
    /\ pageOp.op = "fetchOk"
    /\ OtherAnswer # "pending"

\* C25: when a page's load effect has fired again while a load was in
\* flight, loading is false only when no load is in flight, and the load
\* whose data is stored last, with none left in flight, is the one started
\* last.
C25_LatestLoadWins ==
    /\ page.loads # <<>> => page.loading
    /\ (LoadCommitted /\ page.loads = <<>>) => SettledLoad.latest

-----------------------------------------------------------------------------
(* Properties of the register button.                                      *)

\* C27: while the register button's isRegistered is true the button is
\* disabled and its handler would issue no call; the button of a page whose
\* registrations state holds a registration of the current user has
\* isRegistered true; and a click that has issued createRegistration found
\* no such registration in the state.
C27_NoRegistrationCallOnceRegistered ==
    /\ (form.kind = "register" /\ form.isRegistered)
           => /\ buttonDisabled(form)
              /\ ~handleSubmit(form, token, user).issued
    /\ (route = "eventDetail" /\ form.kind = "register" /\ OwnRegistration(page.dataB))
           => form.isRegistered
    /\ (formOp.op = "submit" /\ form.kind = "register" /\ Len(requests) > formOp.before)
           => ~OwnRegistration(page.dataB)

C27_Witness ==
    /\ RegisteredOwn
    /\ form.kind = "register"
    /\ form.isRegistered
    /\ ~form.loading
    /\ Truthy(token)
    /\ requests = <<>>
    /\ ~OwnRegistration(pageOp.before)

-----------------------------------------------------------------------------
(* Properties of the calls a form instance has in flight.                  *)

\* The calls in flight that the mounted form or button has issued.
LiveRequests == {i \in DOMAIN requests : requests[i].live}

\* C28: the mounted form or button has at most one of its calls in flight;
\* its loading flag is true exactly while it has one; while loading is true
\* its button is disabled, so that no submit reaches the handler; and a
\* submit that has issued a call found none in flight.
C28_OneCallPerFormInstance ==
    /\ Cardinality(LiveRequests) <= 1
    /\ form.loading <=> LiveRequests # {}
    /\ form.loading => buttonDisabled(form)
    /\ (formOp.op = "submit" /\ Len(requests) > formOp.before)
           => LiveRequests = {Len(requests)}

C28_Witness ==
    /\ formOp.op = "submit"
    /\ Len(requests) = 2
    /\ ~requests[1].live
    /\ requests[2].live
    /\ form.loading
    /\ form.kind = "login"

-----------------------------------------------------------------------------
(* Properties of the login page's redirect.                                *)

\* A navigation to /events has been asked for only with a token in the
\* session, and the login page with a token in the session has asked for it.
EventsRedirectFollowsToken ==
    /\ pendingNav = "events" => Truthy(token)
    /\ (route = "login" /\ Truthy(token)) => pendingNav = "events"

\* C29: on the login page a session with a token (after a successful login
\* or after hydration) leads to /events: the redirect is asked for at once
\* and is eventually carried out; no redirect to /events is asked for
\* without a token in the session.
C29_LoginRedirectsWithToken ==
    /\ []EventsRedirectFollowsToken
    /\ (route = "login" /\ Truthy(token)) ~> (route = "events")

C29_Witness ==
    /\ route = "login"
    /\ formOp.op = "success"
    /\ formOp.kind = "login"
    /\ formOp.live
    /\ Truthy(token)
    /\ pendingNav = "events"

-----------------------------------------------------------------------------
(* Properties of the events page's filters.                                *)

\* The events page renders its list: {!loading && !error && <EventList />}.
ListDisplayed ==
    /\ route = "events"
    /\ ~page.loading
    /\ page.error = NoError

\* An event has just been created from the mounted events page.
EventCreatedHere ==
    /\ route = "events"
    /\ pageOp.op = "created"
    /\ pageOp.kind = "eventCreate"
    /\ pageOp.hosted

EventShown(e) ==
    /\ ListDisplayed
    /\ \E i \in DOMAIN ShownEvents : ShownEvents[i] = e

\* A filter change leaves the events state as it was.
FilterChangeKeepsEvents == pageOp.op = "filter" => page.dataA = pageOp.before

\* With both filters empty the list is the whole events state.
ClearedFiltersKeepAll ==
    (route = "events" /\ page.cityFilter = <<>> /\ page.dateFilter = <<>>)
        => ShownEvents = page.dataA

\* The created event is in the filtered list exactly when it matches.
CreatedEventFiltered ==
    EventCreatedHere
        => ((\E i \in DOMAIN ShownEvents : ShownEvents[i] = pageOp.item)
               <=> EventMatches(pageOp.item))

\* C30: on the events page a filter change leaves the events state
\* unchanged, with the filters cleared the list is every event of the
\* state, and an event that has just been created is shown exactly when it
\* matches the filters in force.
C30_FiltersRecomputeShownList ==
    /\ FilterChangeKeepsEvents
    /\ ClearedFiltersKeepAll
    /\ EventCreatedHere => (EventShown(pageOp.item) <=> EventMatches(pageOp.item))

====
